---- MODULE Spec2Model ----
(***************************************************************************)
(* Model of the three scaffolder actions azure:repo:clone, azure:repo:push *)
(* and azure:repo:pr, of the helpers cloneRepo, commitAndPushBranch and    *)
(* createADOPullRequest, and of the path utility getRepoSourceDirectory.   *)
(*                                                                         *)
(* One invocation runs at a time.  A handler's synchronous prefix up to    *)
(* and including the awaited credentials lookup is one action; every       *)
(* awaited git or REST call of a helper is one action that either          *)
(* completes or throws.  The calls an invocation makes on its              *)
(* collaborators are recorded, in order, in inv.calls.                     *)
(*                                                                         *)
(* Strings built by template literals are sequences of their parts.  A     *)
(* path is a record [abs, segs]: whether it starts with "/" and its        *)
(* segments between separators (POSIX separators; trailing separators are  *)
(* not represented).                                                       *)
(***************************************************************************)
EXTENDS Integers, Sequences, FiniteSets, TLC

VARIABLES
    integrations,   \* hosts with an entry in the integrations registry
    config,         \* scaffolder.* configuration keys (process-wide, read-only)
    heads,          \* working directory -> checked-out branch, for directories holding a repository
    prev,           \* summary of the invocation that ended before the current one started
    inv,            \* the current invocation: input, locals, position, calls made
    pathCall        \* the last direct application of getRepoSourceDirectory

vars == <<integrations, config, heads, prev, inv, pathCall>>

-----------------------------------------------------------------------------
(* Values *)

\* JavaScript undefined, for optional string fields.
Undefined == "<undefined>"

\* `${v}`: a template literal prints undefined as the text "undefined".
Str(v) == IF v = Undefined THEN "undefined" ELSE v

\* Truthiness of an optional string: undefined and "" are falsy.
Truthy(v) == v # Undefined /\ v # ""

\* a ?? b
Coalesce(a, b) == IF a # Undefined THEN a ELSE b

\* An optional path that was not supplied.
UndefinedPath == [undef |-> TRUE]

Rel(segs) == [abs |-> FALSE, segs |-> segs]
Abs(segs) == [abs |-> TRUE, segs |-> segs]

\* The empty string as a path.
EmptyPath == Rel(<<>>)

TruthyPath(p) == p # UndefinedPath /\ p # EmptyPath

-----------------------------------------------------------------------------
(* Bounds of the explored inputs *)

\* Longest sourcePath, in segments, given to getRepoSourceDirectory directly.
MaxLen == 4

\* Segments paths are built from; "..foo" is a name that merely begins with "..".
Segments == {"..", ".", "a", "etc", "..foo"}

\* The segments whose text starts with "..".
DotDotPrefixed == {"..", "..foo"}

RECURSIVE SeqsUpTo(_, _)
SeqsUpTo(S, n) ==
    IF n = 0 THEN {<<>>}
    ELSE LET shorter == SeqsUpTo(S, n - 1)
         IN  shorter \cup {Append(s, x) : s \in {t \in shorter : Len(t) = n - 1}, x \in S}

PathInputs == {UndefinedPath} \cup {[abs |-> a, segs |-> s] : a \in BOOLEAN, s \in SeqsUpTo(Segments, MaxLen)}

WorkspaceRoots == {Abs(<<"work">>), Abs(<<"work", "ws">>)}

-----------------------------------------------------------------------------
(* node:path and @backstage/backend-common path helpers, as the code uses them *)

RECURSIVE NormSegs(_, _, _)
NormSegs(segs, abs, acc) ==
    IF segs = <<>> THEN acc
    ELSE LET s == Head(segs)
             rest == Tail(segs)
         IN  IF s = "." THEN NormSegs(rest, abs, acc)
             ELSE IF s = ".."
                  THEN IF acc # <<>> /\ acc[Len(acc)] # ".."
                       THEN NormSegs(rest, abs, SubSeq(acc, 1, Len(acc) - 1))
                       ELSE IF abs THEN NormSegs(rest, abs, acc)
                            ELSE NormSegs(rest, abs, Append(acc, ".."))
                  ELSE NormSegs(rest, abs, Append(acc, s))

\* path.normalize: resolves "." and ".." segments; a relative path keeps the
\* ".." segments it cannot resolve, in front; an empty relative result is ".".
PathNormalize(p) ==
    LET n == NormSegs(p.segs, p.abs, <<>>)
    IN  [abs |-> p.abs, segs |-> IF ~p.abs /\ n = <<>> THEN <<".">> ELSE n]

RECURSIVE DropLeadingDotDot(_)
DropLeadingDotDot(segs) ==
    IF segs # <<>> /\ Head(segs) = ".." THEN DropLeadingDotDot(Tail(segs)) ELSE segs

\* .replace(/^(\.\.(\/|\\|$))+/, ""): removes the leading run of segments that
\* are exactly ".."; a path starting with "/" does not match.
StripLeadingTraversal(p) ==
    IF p.abs THEN p ELSE Rel(DropLeadingDotDot(p.segs))

\* path.join(a, b): the non-empty arguments joined by "/" and normalized.
PathJoin(a, b) == PathNormalize([abs |-> a.abs, segs |-> a.segs \o b.segs])

\* path.resolve(base, p) for an absolute base.
PathResolve(base, p) ==
    IF p.abs THEN PathNormalize(p) ELSE PathNormalize(Abs(base.segs \o p.segs))

RECURSIVE CommonPrefixLen(_, _)
CommonPrefixLen(a, b) ==
    IF a # <<>> /\ b # <<>> /\ Head(a) = Head(b)
    THEN 1 + CommonPrefixLen(Tail(a), Tail(b))
    ELSE 0

\* path.relative(from, to) for absolute normalized paths, as segments.
PathRelative(from, to) ==
    LET k == CommonPrefixLen(from.segs, to.segs)
    IN  [i \in 1..(Len(from.segs) - k) |-> ".."] \o SubSeq(to.segs, k + 1, Len(to.segs))

\* isChildPath(base, path): the relative path is empty, or its text does not
\* start with ".." (POSIX: a relative path is never absolute).
IsChildPath(base, path) ==
    LET rel == PathRelative(base, path)
    IN  rel = <<>> \/ rel[1] \notin DotDotPrefixed

NoError == "none"

\* resolveSafeChildPath(base, path)
ResolveSafeChildPath(base, path) ==
    LET targetPath == PathResolve(base, path)
    IN  IF ~IsChildPath(base, targetPath)
        THEN [error |-> "NotAllowedError", path |-> UndefinedPath]
        ELSE [error |-> NoError, path |-> targetPath]

\* Faulty variant: the joined path is returned without the isChildPath check and
\* without normalizing the source path before the strip.
GetRepoSourceDirectoryUnchecked(workspacePath, sourcePath) ==
    IF TruthyPath(sourcePath)
    THEN [error |-> NoError, path |-> PathJoin(workspacePath, StripLeadingTraversal(sourcePath))]
    ELSE [error |-> NoError, path |-> workspacePath]

GetRepoSourceDirectory(workspacePath, sourcePath) ==
    IF TruthyPath(sourcePath)
    THEN LET safeSuffix == StripLeadingTraversal(PathNormalize(sourcePath))
             path1 == PathJoin(workspacePath, safeSuffix)
         IN  IF ~IsChildPath(workspacePath, path1)
             THEN [error |-> "Invalid source path", path |-> UndefinedPath]
             ELSE [error |-> NoError, path |-> path1]
    ELSE [error |-> NoError, path |-> workspacePath]

-----------------------------------------------------------------------------
(* Collaborators: integrations registry, configuration, credentials provider *)

\* ctx.workspacePath of the action invocations.
WorkspacePath == Abs(<<"work">>)

DefaultHost == "dev.azure.com"

\* Faulty variant: every host has an integration.
IntegrationTypeAny(host) == "azure"

\* integrations.byHost(host)?.type

IntegrationType(host) == IF host \in integrations THEN "azure" ELSE Undefined

\* credentials === undefined
NoCredentials == [type |-> Undefined, token |-> Undefined]

\* What credentialProvider.getCredentials({ url }) can resolve to.
ProviderResults ==
    {NoCredentials,
     [type |-> "pat", token |-> "provider-token"],
     [type |-> "bearer", token |-> "provider-token"]}

\* config.getOptionalString(key)
GetOptionalString(key) == config[key]

\* `https://${host}/${organization}`
UrlOf(host, organization) == <<"https://", Str(host), "/", Str(organization)>>

\* `refs/heads/${branch}`
RefOf(branch) == <<"refs/heads/", Str(branch)>>

\* Faulty variant: the input server is ignored.
ResolveHostAlwaysDefault(server) == DefaultHost

\* server ?? "dev.azure.com"

ResolveHost(server) == Coalesce(server, DefaultHost)

\* Faulty variant: the credential check never fires.
CredentialsMissingNever(credentials, token) == FALSE

\* credentials === undefined && ctx.input.token === undefined

CredentialsMissing(credentials, token) ==
    credentials = NoCredentials /\ token = Undefined

\* ctx.input.token ?? credentials.token; reading .token of undefined throws.
ResolveToken(token, credentials) ==
    IF token # Undefined THEN [error |-> NoError, token |-> token]
    ELSE IF credentials = NoCredentials THEN [error |-> "TypeError", token |-> Undefined]
    ELSE [error |-> NoError, token |-> credentials.token]

\* Faulty variant: no fallback to "Initial commit".
ResolveCommitMessageNoFallback(gitCommitMessage) ==
    IF Truthy(gitCommitMessage) THEN gitCommitMessage
    ELSE GetOptionalString("defaultCommitMessage")

\* gitCommitMessage ? gitCommitMessage
\*   : config.getOptionalString("scaffolder.defaultCommitMessage") || "Initial commit"
ResolveCommitMessage(gitCommitMessage) ==
    IF Truthy(gitCommitMessage) THEN gitCommitMessage
    ELSE IF Truthy(GetOptionalString("defaultCommitMessage"))
         THEN GetOptionalString("defaultCommitMessage")
         ELSE "Initial commit"

\* ctx.input.token || credentials?.type === "pat"
\*   ? getPersonalAccessTokenHandler(ctx.input.token ?? credentials.token)
\*   : getBearerHandler(credentials.token)
BuildAuthHandler(token, credentials) ==
    IF Truthy(token) \/ credentials.type = "pat"
    THEN LET t == ResolveToken(token, credentials)
         IN  [error |-> t.error, handler |-> [kind |-> "pat", token |-> t.token]]
    ELSE IF credentials = NoCredentials
         THEN [error |-> "TypeError", handler |-> [kind |-> "bearer", token |-> Undefined]]
         ELSE [error |-> NoError, handler |-> [kind |-> "bearer", token |-> credentials.token]]

-----------------------------------------------------------------------------
(* Invocations *)

NoHelper == [fn |-> "none"]

NoClone == [cloned |-> FALSE]

Invocation(action, input, pc, error, calls, credentials, helper) ==
    [action |-> action, input |-> input, pc |-> pc, error |-> error,
     calls |-> calls, credentials |-> credentials, helper |-> helper,
     currentBranch |-> Undefined]

IdleInv ==
    Invocation("idle", [token |-> Undefined], "idle", NoError, <<>>, NoCredentials, NoHelper)

\* The handler threw before calling its helper.
Thrown(action, input, error, calls, credentials) ==
    Invocation(action, input, "failed", error, calls, credentials, NoHelper)

Ended == {"done", "failed"}

\* What is remembered of an invocation once it has ended.
Summary(i) ==
    IF i.pc = "done" /\ i.helper.fn = "cloneRepo"
    THEN [cloned |-> TRUE, dir |-> i.helper.dir, branch |-> i.helper.branch]
    ELSE NoClone

\* The handler's promise settled: the host is free to invoke the next action.
HandlerSettled ==
    /\ inv.pc \in Ended
    /\ inv' = IdleInv
    /\ prev' = Summary(inv)
    /\ UNCHANGED <<integrations, config, heads, pathCall>>

ByHostCall(host) == [op |-> "byHost", host |-> host]

GetCredentialsCall(url) == [op |-> "getCredentials", url |-> url]

\* An awaited delegate call returned (ok) or threw; a throw ends the invocation.
Awaited(i, call, ok, nextPc) ==
    [i EXCEPT !.calls = Append(@, call),
              !.pc = IF ok THEN nextPc ELSE "failed",
              !.error = IF ok THEN NoError ELSE "UpstreamError"]

SetHead(dir, branch) ==
    [d \in (DOMAIN heads) \cup {dir} |-> IF d = dir THEN branch ELSE heads[d]]

-----------------------------------------------------------------------------
(* azure:repo:clone *)

CloneHandlerOutcome(in, provided) ==
    LET targetPath == IF in.targetPath # UndefinedPath THEN in.targetPath ELSE Rel(<<".">>)
        outputDir == ResolveSafeChildPath(WorkspacePath, targetPath)
        host == ResolveHost(in.server)
        type == IntegrationType(host)
        organization == Coalesce(in.organization, "notempty")
        url == UrlOf(host, organization)
        token == ResolveToken(in.token, provided)
        action == "azure:repo:clone"
    IN  IF outputDir.error # NoError
        THEN Thrown(action, in, outputDir.error, <<>>, NoCredentials)
        ELSE IF ~Truthy(type)
        THEN Thrown(action, in, "NoIntegration", <<ByHostCall(host)>>, NoCredentials)
        ELSE IF CredentialsMissing(provided, in.token)
        THEN Thrown(action, in, "NoCredentials",
                    <<ByHostCall(host), GetCredentialsCall(url)>>, provided)
        ELSE IF token.error # NoError
        THEN Thrown(action, in, token.error,
                    <<ByHostCall(host), GetCredentialsCall(url)>>, provided)
        ELSE Invocation(action, in, "clone", NoError,
                        <<ByHostCall(host), GetCredentialsCall(url)>>, provided,
                        [fn |-> "cloneRepo",
                         dir |-> outputDir.path,
                         auth |-> [username |-> "notempty", password |-> token.token],
                         remote |-> "origin",
                         remoteUrl |-> in.remoteUrl,
                         branch |-> Coalesce(in.branch, "main")])

CloneAzureRepoHandler(Inputs) ==
    /\ inv.pc = "idle"
    /\ \E in \in Inputs, provided \in ProviderResults :
          inv' = CloneHandlerOutcome(in, provided)
    /\ UNCHANGED <<integrations, config, heads, prev, pathCall>>

\* Branches the remote's HEAD may point at.
RemoteHeads == {"main", "release"}

\* Faulty variant: addRemote is issued whether or not the clone went through.
CloneRepoCloneUnawaited ==
    /\ inv.helper.fn = "cloneRepo" /\ inv.pc = "clone"
    /\ \E ok \in BOOLEAN, remoteHead \in RemoteHeads :
          /\ inv' = [Awaited(inv, [op |-> "clone", url |-> inv.helper.remoteUrl,
                                   dir |-> inv.helper.dir, depth |-> 1, ok |-> ok],
                             ok, "addRemote")
                     EXCEPT !.pc = "addRemote", !.error = NoError]
          /\ heads' = IF ok THEN SetHead(inv.helper.dir, remoteHead) ELSE heads
    /\ UNCHANGED <<integrations, config, prev, pathCall>>

CloneRepoClone ==
    /\ inv.helper.fn = "cloneRepo" /\ inv.pc = "clone"
    /\ \E ok \in BOOLEAN, remoteHead \in RemoteHeads :
          /\ inv' = Awaited(inv, [op |-> "clone", url |-> inv.helper.remoteUrl,
                                  dir |-> inv.helper.dir, depth |-> 1, ok |-> ok],
                            ok, "addRemote")
          /\ heads' = IF ok THEN SetHead(inv.helper.dir, remoteHead) ELSE heads
    /\ UNCHANGED <<integrations, config, prev, pathCall>>

CloneRepoAddRemote ==
    /\ inv.helper.fn = "cloneRepo" /\ inv.pc = "addRemote"
    /\ \E ok \in BOOLEAN :
          inv' = Awaited(inv, [op |-> "addRemote", dir |-> inv.helper.dir,
                               remote |-> inv.helper.remote,
                               url |-> inv.helper.remoteUrl, ok |-> ok],
                         ok, "checkout")
    /\ UNCHANGED <<integrations, config, heads, prev, pathCall>>

CloneRepoCheckout ==
    /\ inv.helper.fn = "cloneRepo" /\ inv.pc = "checkout"
    /\ \E ok \in BOOLEAN :
          /\ inv' = Awaited(inv, [op |-> "checkout", dir |-> inv.helper.dir,
                                  ref |-> inv.helper.branch, ok |-> ok],
                            ok, "done")
          /\ heads' = IF ok THEN SetHead(inv.helper.dir, inv.helper.branch) ELSE heads
    /\ UNCHANGED <<integrations, config, prev, pathCall>>

-----------------------------------------------------------------------------
(* azure:repo:push *)

PushHandlerOutcome(in, provided) ==
    LET sourcePath == GetRepoSourceDirectory(WorkspacePath, in.sourcePath)
        host == ResolveHost(in.server)
        type == IntegrationType(host)
        organization == Coalesce(in.organization, "notempty")
        url == UrlOf(host, organization)
        token == ResolveToken(in.token, provided)
        gitAuthorInfo ==
            [name |-> IF Truthy(in.gitAuthorName) THEN in.gitAuthorName
                      ELSE GetOptionalString("defaultAuthorName"),
             email |-> IF Truthy(in.gitAuthorEmail) THEN in.gitAuthorEmail
                       ELSE GetOptionalString("defaultAuthorEmail")]
        action == "azure:repo:push"
    IN  IF sourcePath.error # NoError
        THEN Thrown(action, in, sourcePath.error, <<>>, NoCredentials)
        ELSE IF ~Truthy(type)
        THEN Thrown(action, in, "NoIntegration", <<ByHostCall(host)>>, NoCredentials)
        ELSE IF CredentialsMissing(provided, in.token)
        THEN Thrown(action, in, "NoCredentials",
                    <<ByHostCall(host), GetCredentialsCall(url)>>, provided)
        ELSE IF token.error # NoError
        THEN Thrown(action, in, token.error,
                    <<ByHostCall(host), GetCredentialsCall(url)>>, provided)
        ELSE Invocation(action, in, "currentBranch", NoError,
                        <<ByHostCall(host), GetCredentialsCall(url)>>, provided,
                        [fn |-> "commitAndPushBranch",
                         dir |-> sourcePath.path,
                         auth |-> [username |-> "notempty", password |-> token.token],
                         remote |-> "origin",
                         commitMessage |-> ResolveCommitMessage(in.gitCommitMessage),
                         gitAuthorInfo |-> gitAuthorInfo,
                         authorInfo |->
                             [name |-> Coalesce(gitAuthorInfo.name, "Scaffolder"),
                              email |-> Coalesce(gitAuthorInfo.email, "scaffolder@backstage.io")],
                         branch |-> Coalesce(in.branch, "scaffolder")])

PushAzureRepoHandler(Inputs) ==
    /\ inv.pc = "idle"
    /\ \E in \in Inputs, provided \in ProviderResults :
          inv' = PushHandlerOutcome(in, provided)
    /\ UNCHANGED <<integrations, config, heads, prev, pathCall>>

\* Faulty variant: the branch is never created.
BranchDiffersNever(currentBranch, branch) == FALSE

\* if (currentBranch !== branch)

BranchDiffers(currentBranch, branch) == currentBranch # branch

\* git.currentBranch reads HEAD of the repository in dir and throws when dir
\* holds none.
CommitAndPushCurrentBranch ==
    /\ inv.helper.fn = "commitAndPushBranch" /\ inv.pc = "currentBranch"
    /\ \E ok \in IF inv.helper.dir \in DOMAIN heads THEN BOOLEAN ELSE {FALSE} :
          LET currentBranch == IF ok THEN heads[inv.helper.dir] ELSE Undefined
              nextPc == IF BranchDiffers(currentBranch, inv.helper.branch)
                        THEN "branch" ELSE "add"
          IN  inv' = [Awaited(inv, [op |-> "currentBranch", dir |-> inv.helper.dir,
                                    ok |-> ok],
                              ok, nextPc)
                      EXCEPT !.currentBranch = currentBranch]
    /\ UNCHANGED <<integrations, config, heads, prev, pathCall>>

CommitAndPushBranchCreate ==
    /\ inv.helper.fn = "commitAndPushBranch" /\ inv.pc = "branch"
    /\ \E ok \in BOOLEAN :
          inv' = Awaited(inv, [op |-> "branch", dir |-> inv.helper.dir,
                               ref |-> inv.helper.branch, ok |-> ok],
                         ok, "checkout")
    /\ UNCHANGED <<integrations, config, heads, prev, pathCall>>

CommitAndPushCheckout ==
    /\ inv.helper.fn = "commitAndPushBranch" /\ inv.pc = "checkout"
    /\ \E ok \in BOOLEAN :
          /\ inv' = Awaited(inv, [op |-> "checkout", dir |-> inv.helper.dir,
                                  ref |-> inv.helper.branch, ok |-> ok],
                            ok, "add")
          /\ heads' = IF ok THEN SetHead(inv.helper.dir, inv.helper.branch) ELSE heads
    /\ UNCHANGED <<integrations, config, prev, pathCall>>

CommitAndPushAdd ==
    /\ inv.helper.fn = "commitAndPushBranch" /\ inv.pc = "add"
    /\ \E ok \in BOOLEAN :
          inv' = Awaited(inv, [op |-> "add", dir |-> inv.helper.dir,
                               filepath |-> ".", ok |-> ok],
                         ok, "commit")
    /\ UNCHANGED <<integrations, config, heads, prev, pathCall>>

\* Faulty variant: the commit uses the author info as passed in, without the
\* defaults of commitAndPushBranch.
CommitAndPushCommitRawAuthor ==
    /\ inv.helper.fn = "commitAndPushBranch" /\ inv.pc = "commit"
    /\ \E ok \in BOOLEAN :
          inv' = Awaited(inv, [op |-> "commit", dir |-> inv.helper.dir,
                               message |-> inv.helper.commitMessage,
                               author |-> inv.helper.gitAuthorInfo,
                               committer |-> inv.helper.gitAuthorInfo, ok |-> ok],
                         ok, "push")
    /\ UNCHANGED <<integrations, config, heads, prev, pathCall>>

\* Faulty variant: the push is issued whether or not the commit went through.
CommitAndPushCommitUnawaited ==
    /\ inv.helper.fn = "commitAndPushBranch" /\ inv.pc = "commit"
    /\ \E ok \in BOOLEAN :
          inv' = [Awaited(inv, [op |-> "commit", dir |-> inv.helper.dir,
                                message |-> inv.helper.commitMessage,
                                author |-> inv.helper.authorInfo,
                                committer |-> inv.helper.authorInfo, ok |-> ok],
                          ok, "push")
                  EXCEPT !.pc = "push", !.error = NoError]
    /\ UNCHANGED <<integrations, config, heads, prev, pathCall>>

CommitAndPushCommit ==
    /\ inv.helper.fn = "commitAndPushBranch" /\ inv.pc = "commit"
    /\ \E ok \in BOOLEAN :
          inv' = Awaited(inv, [op |-> "commit", dir |-> inv.helper.dir,
                               message |-> inv.helper.commitMessage,
                               author |-> inv.helper.authorInfo,
                               committer |-> inv.helper.authorInfo, ok |-> ok],
                         ok, "push")
    /\ UNCHANGED <<integrations, config, heads, prev, pathCall>>

CommitAndPushPush ==
    /\ inv.helper.fn = "commitAndPushBranch" /\ inv.pc = "push"
    /\ \E ok \in BOOLEAN :
          inv' = Awaited(inv, [op |-> "push", dir |-> inv.helper.dir,
                               remote |-> inv.helper.remote,
                               remoteRef |-> RefOf(inv.helper.branch), ok |-> ok],
                         ok, "done")
    /\ UNCHANGED <<integrations, config, heads, prev, pathCall>>

-----------------------------------------------------------------------------
(* azure:repo:pr *)

\* A template literal is never null or undefined, so the right-hand sides of
\* `refs/heads/${...}` ?? ... at lines 367-368 are never taken.
PullRequestHandlerOutcome(in, provided) ==
    LET sourceBranch == RefOf(in.sourceBranch)
        targetBranch == RefOf(in.targetBranch)
        host == ResolveHost(in.server)
        type == IntegrationType(host)
        pullRequest == [sourceRefName |-> sourceBranch,
                        targetRefName |-> targetBranch,
                        title |-> in.title]
        organization == Coalesce(in.organization, "notempty")
        url == UrlOf(host, organization)
        authHandler == BuildAuthHandler(in.token, provided)
        action == "azure:repo:pr"
    IN  IF ~Truthy(type)
        THEN Thrown(action, in, "NoIntegration", <<ByHostCall(host)>>, NoCredentials)
        ELSE IF CredentialsMissing(provided, in.token)
        THEN Thrown(action, in, "NoCredentials",
                    <<ByHostCall(host), GetCredentialsCall(url)>>, provided)
        ELSE IF authHandler.error # NoError
        THEN Thrown(action, in, authHandler.error,
                    <<ByHostCall(host), GetCredentialsCall(url)>>, provided)
        ELSE Invocation(action, in, "WebApi", NoError,
                        <<ByHostCall(host), GetCredentialsCall(url)>>, provided,
                        [fn |-> "createADOPullRequest",
                         gitPullRequestToCreate |-> pullRequest,
                         url |-> url,
                         authHandler |-> authHandler.handler,
                         repoId |-> in.repoId,
                         project |-> in.project,
                         supportsIterations |-> in.supportsIterations])

PullRequestAzureRepoHandler(Inputs) ==
    /\ inv.pc = "idle"
    /\ \E in \in Inputs, provided \in ProviderResults :
          inv' = PullRequestHandlerOutcome(in, provided)
    /\ UNCHANGED <<integrations, config, heads, prev, pathCall>>

CreateADOPullRequestWebApi ==
    /\ inv.helper.fn = "createADOPullRequest" /\ inv.pc = "WebApi"
    /\ \E ok \in BOOLEAN :
          inv' = Awaited(inv, [op |-> "WebApi", url |-> inv.helper.url,
                               authHandler |-> inv.helper.authHandler, ok |-> ok],
                         ok, "getGitApi")
    /\ UNCHANGED <<integrations, config, heads, prev, pathCall>>

CreateADOPullRequestGetGitApi ==
    /\ inv.helper.fn = "createADOPullRequest" /\ inv.pc = "getGitApi"
    /\ \E ok \in BOOLEAN :
          inv' = Awaited(inv, [op |-> "getGitApi", ok |-> ok], ok, "createPullRequest")
    /\ UNCHANGED <<integrations, config, heads, prev, pathCall>>

CreateADOPullRequestCreate ==
    /\ inv.helper.fn = "createADOPullRequest" /\ inv.pc = "createPullRequest"
    /\ \E ok \in BOOLEAN :
          inv' = Awaited(inv, [op |-> "createPullRequest",
                               gitPullRequestToCreate |-> inv.helper.gitPullRequestToCreate,
                               repoId |-> inv.helper.repoId,
                               project |-> inv.helper.project,
                               supportsIterations |-> inv.helper.supportsIterations,
                               ok |-> ok],
                         ok, "done")
    /\ UNCHANGED <<integrations, config, heads, prev, pathCall>>

-----------------------------------------------------------------------------
(* Inputs of the explored invocations *)

Tokens == {Undefined, "", "input-token"}

Servers == {Undefined, "ado.example.com"}

Organizations == {Undefined, "org"}

\* sourcePath / targetPath values of the action invocations: omitted, a
\* subdirectory, a leading traversal, and a name that begins with "..".
ActionPaths == {UndefinedPath, Rel(<<"a">>), Rel(<<"..", "..", "etc">>), Rel(<<"..foo">>)}

CloneInputs ==
    [remoteUrl : {"https://dev.azure.com/org/_git/repo"},
     branch : {Undefined, "release"},
     targetPath : ActionPaths,
     server : Servers, organization : Organizations, token : Tokens]

PushInputs ==
    [branch : {Undefined, "release"},
     sourcePath : ActionPaths,
     gitCommitMessage : {Undefined}, gitAuthorName : {Undefined}, gitAuthorEmail : {Undefined},
     server : Servers, organization : Organizations, token : Tokens]

PullRequestInputs ==
    [sourceBranch : {Undefined, "feature-x"},
     targetBranch : {Undefined, "release"},
     title : {"title"}, repoId : {"repo"}, project : {"project"},
     supportsIterations : {TRUE},
     server : Servers, organization : Organizations, token : Tokens]

\* Push inputs that vary the commit message and author fields.
PushCommitInputs ==
    [branch : {Undefined},
     sourcePath : {UndefinedPath},
     gitCommitMessage : {Undefined, "", "input message"},
     gitAuthorName : {Undefined, "", "Ann"},
     gitAuthorEmail : {Undefined, "ann@example.com"},
     server : {Undefined}, organization : {Undefined}, token : {"input-token"}]

NoConfig ==
    [defaultAuthorName |-> Undefined, defaultAuthorEmail |-> Undefined,
     defaultCommitMessage |-> Undefined]

CommitConfigs ==
    [defaultAuthorName : {Undefined, "Configured Author"},
     defaultAuthorEmail : {Undefined, "configured@example.com"},
     defaultCommitMessage : {Undefined, "", "configured message"}]

NoPathCall == [applied |-> FALSE]

-----------------------------------------------------------------------------
(* Specifications *)

\* The three actions against a registry that knows one of the two hosts.
Init ==
    /\ integrations \in {{DefaultHost}, {"ado.example.com"}}
    /\ config = NoConfig
    /\ heads = [d \in {} |-> Undefined]
    /\ prev = NoClone
    /\ inv = IdleInv
    /\ pathCall = NoPathCall

Next ==
    \/ CloneAzureRepoHandler(CloneInputs)
    \/ CloneRepoClone
    \/ CloneRepoAddRemote
    \/ CloneRepoCheckout
    \/ PushAzureRepoHandler(PushInputs)
    \/ CommitAndPushCurrentBranch
    \/ CommitAndPushBranchCreate
    \/ CommitAndPushCheckout
    \/ CommitAndPushAdd
    \/ CommitAndPushCommit
    \/ CommitAndPushPush
    \/ PullRequestAzureRepoHandler(PullRequestInputs)
    \/ CreateADOPullRequestWebApi
    \/ CreateADOPullRequestGetGitApi
    \/ CreateADOPullRequestCreate
    \/ HandlerSettled

Spec == Init /\ [][Next]_vars

\* The push action on a cloned workspace, over every configuration of the
\* scaffolder.* keys and every commit message and author input.
InitCommit ==
    /\ integrations = {DefaultHost}
    /\ config \in CommitConfigs
    /\ heads = [d \in {WorkspacePath} |-> "main"]
    /\ prev = NoClone
    /\ inv = IdleInv
    /\ pathCall = NoPathCall

NextCommit ==
    \/ PushAzureRepoHandler(PushCommitInputs)
    \/ CommitAndPushCurrentBranch
    \/ CommitAndPushBranchCreate
    \/ CommitAndPushCheckout
    \/ CommitAndPushAdd
    \/ CommitAndPushCommit
    \/ CommitAndPushPush
    \/ HandlerSettled

SpecCommit == InitCommit /\ [][NextCommit]_vars

\* getRepoSourceDirectory applied to every workspace root and source path.
ApplyGetRepoSourceDirectory ==
    /\ ~pathCall.applied
    /\ \E workspacePath \in WorkspaceRoots, sourcePath \in PathInputs :
          pathCall' = [applied |-> TRUE,
                       workspacePath |-> workspacePath,
                       sourcePath |-> sourcePath,
                       result |-> GetRepoSourceDirectory(workspacePath, sourcePath)]
    /\ UNCHANGED <<integrations, config, heads, prev, inv>>

InitPath ==
    /\ integrations = {DefaultHost}
    /\ config = NoConfig
    /\ heads = [d \in {} |-> Undefined]
    /\ prev = NoClone
    /\ inv = IdleInv
    /\ pathCall = NoPathCall

NextPath == ApplyGetRepoSourceDirectory

SpecPath == InitPath /\ [][NextPath]_vars

-----------------------------------------------------------------------------
(* Vocabulary of the properties *)

GitOps == {"clone", "addRemote", "checkout", "currentBranch", "branch", "add", "commit", "push"}

RestOps == {"WebApi", "getGitApi", "createPullRequest"}

OpsOf(calls) == {calls[i].op : i \in DOMAIN calls}

OpSeq(calls) == [i \in DOMAIN calls |-> calls[i].op]

IsDelegateCall(c) == c.op \in GitOps \cup RestOps

\* The git and REST calls of the current invocation, in order.
DelegateCalls == SelectSeq(inv.calls, IsDelegateCall)

IsPrefix(s, t) == Len(s) <= Len(t) /\ SubSeq(t, 1, Len(s)) = s

Started == inv.action # "idle"

\* The token the delegate authenticates with.
AuthToken(helper) ==
    IF helper.fn = "createADOPullRequest" THEN helper.authHandler.token
    ELSE helper.auth.password

ExpectedHost(in) == IF in.server = Undefined THEN "dev.azure.com" ELSE in.server

ExpectedOrganization(in) == IF in.organization = Undefined THEN "notempty" ELSE in.organization

\* The provider was consulted and had no credentials for the URL.
ProviderReturnedNone ==
    "getCredentials" \in OpsOf(inv.calls) /\ inv.credentials = NoCredentials

-----------------------------------------------------------------------------
(* C1: in each action, an invocation whose input supplies a token (any string,
   "" included) authenticates its delegate with that token, whatever the
   provider returned. *)
C1_ExplicitTokenWins ==
    (Started /\ inv.helper.fn # "none" /\ inv.input.token # Undefined)
        => AuthToken(inv.helper) = inv.input.token

(* C2: in each action, an invocation with no input token for which the provider
   returned no credentials has failed with the credential error, and has made no
   git call and no REST call. *)
C2_NoCredentialsFailsBeforeAnyCall ==
    (Started /\ inv.input.token = Undefined /\ ProviderReturnedNone)
        => /\ inv.pc = "failed"
           /\ inv.error = "NoCredentials"
           /\ inv.helper = NoHelper
           /\ OpsOf(inv.calls) \cap (GitOps \cup RestOps) = {}

C2_Witness ==
    /\ inv.action = "azure:repo:pr"
    /\ inv.input.token = Undefined
    /\ ProviderReturnedNone
    /\ inv.error = "NoCredentials"

\* Neither the provider nor a git or REST delegate was called.
NothingCalledBeyondLookup ==
    OpsOf(inv.calls) \cap ({"getCredentials"} \cup GitOps \cup RestOps) = {}

NoIntegrationForHost == Started /\ ExpectedHost(inv.input) \notin integrations

(* C3, as claimed: in each action, an invocation whose host has no registry
   entry fails with the configuration error and calls neither the provider nor
   a delegate, for every sourcePath / targetPath. *)
C3_Original ==
    NoIntegrationForHost
        => /\ inv.pc = "failed"
           /\ inv.error = "NoIntegration"
           /\ NothingCalledBeyondLookup

\* The input's path is one the path check accepts: it stays in the workspace
\* and, after the push action's strip, does not begin with "..".
PathInsideWorkspace ==
    IF inv.action = "azure:repo:clone"
    THEN inv.input.targetPath \in {UndefinedPath, Rel(<<"a">>)}
    ELSE IF inv.action = "azure:repo:push"
    THEN inv.input.sourcePath \in {UndefinedPath, Rel(<<"a">>), Rel(<<"..", "..", "etc">>)}
    ELSE TRUE

(* C3, amended: in each action, an invocation whose host has no registry entry
   fails without calling the provider or a delegate; its error is the
   configuration error, unless the path check that runs before the host lookup
   (resolveSafeChildPath on targetPath in clone, getRepoSourceDirectory on
   sourcePath in push) rejected the path, and then it is that path error. *)
C3_NoIntegrationFails ==
    NoIntegrationForHost
        => /\ inv.pc = "failed"
           /\ NothingCalledBeyondLookup
           /\ inv.helper = NoHelper
           /\ inv.error = (IF PathInsideWorkspace THEN "NoIntegration"
                           ELSE IF inv.action = "azure:repo:clone" THEN "NotAllowedError"
                           ELSE "Invalid source path")

C3_Witness ==
    /\ NoIntegrationForHost
    /\ inv.action = "azure:repo:push"
    /\ inv.input.sourcePath = Rel(<<"..", "..", "etc">>)
    /\ inv.input.token = "input-token"
    /\ inv.error = "NoIntegration"
    /\ OpSeq(inv.calls) = <<"byHost">>

-----------------------------------------------------------------------------
\* p is the root or lies below it: absolute, fully resolved, with the root's
\* segments in front.
DescendantOrEqual(root, p) ==
    /\ p.abs
    /\ IsPrefix(root.segs, p.segs)
    /\ \A i \in DOMAIN p.segs : p.segs[i] \notin {"..", "."}

PlainNames == Segments \ {"..", ".", "..foo"}

\* A relative path made of leading ".." segments followed by plain names.
IsLeadingTraversal(p) ==
    /\ p # UndefinedPath /\ ~p.abs /\ p.segs # <<>>
    /\ \A i \in DOMAIN p.segs :
          \/ p.segs[i] \in PlainNames
          \/ p.segs[i] = ".." /\ \A j \in 1..i : p.segs[j] = ".."

(* C4: for every workspace root and every sourcePath, getRepoSourceDirectory
   returns the root or a path below it, or fails with the path-safety error;
   leading ".." segments are stripped, not rejected (/work with ../../etc gives
   /work/etc), and without a sourcePath the root is returned unchanged. *)
C4_PathStaysInWorkspace ==
    pathCall.applied
        => LET root == pathCall.workspacePath
               sourcePath == pathCall.sourcePath
               r == pathCall.result
           IN  /\ r.error \in {NoError, "Invalid source path"}
               /\ r.error = NoError => DescendantOrEqual(root, r.path)
               /\ sourcePath = UndefinedPath => r = [error |-> NoError, path |-> root]
               /\ IsLeadingTraversal(sourcePath)
                    => r = [error |-> NoError,
                            path |-> Abs(root.segs \o DropLeadingDotDot(sourcePath.segs))]
               /\ (root = Abs(<<"work">>) /\ sourcePath = Rel(<<"..", "..", "etc">>))
                    => r = [error |-> NoError, path |-> Abs(<<"work", "etc">>)]

C4_Witness ==
    /\ pathCall.applied
    /\ pathCall.workspacePath = Abs(<<"work">>)
    /\ pathCall.sourcePath = Rel(<<"a", "..", "..", "etc">>)
    /\ pathCall.result = [error |-> NoError, path |-> Abs(<<"work", "etc">>)]

-----------------------------------------------------------------------------
(* C5: the PR action's descriptor has sourceRefName refs/heads/<sourceBranch>
   and targetRefName refs/heads/<targetBranch>, with refs/heads/main when
   targetBranch is omitted, and that descriptor is what createPullRequest gets. *)
C5_TargetDefaultsToMain ==
    (Started /\ inv.helper.fn = "createADOPullRequest")
        => LET in == inv.input
               pr == inv.helper.gitPullRequestToCreate
           IN  /\ in.sourceBranch # Undefined
                    => pr.sourceRefName = <<"refs/heads/", in.sourceBranch>>
               /\ pr.targetRefName =
                    <<"refs/heads/", IF in.targetBranch = Undefined THEN "main"
                                     ELSE in.targetBranch>>
               /\ \A i \in DOMAIN inv.calls :
                     inv.calls[i].op = "createPullRequest"
                        => inv.calls[i].gitPullRequestToCreate = pr

-----------------------------------------------------------------------------
PushRunning == Started /\ inv.helper.fn = "commitAndPushBranch"

\* The push helper runs on the directory, and right after, a successful
\* cloneRepo left behind.
PushFollowsClone == PushRunning /\ prev.cloned /\ inv.helper.dir = prev.dir

(* C6: after a successful cloneRepo with branch B the working tree is on B; a
   commitAndPushBranch that follows on the same directory with the same B
   creates and checks out no branch and goes to add, commit, push; with any
   other branch, the push default of an omitted branch included, the branch is
   created and checked out before the add. *)
C6_RoundTrip ==
    /\ (Started /\ inv.helper.fn = "cloneRepo" /\ inv.pc = "done")
          => /\ inv.helper.dir \in DOMAIN heads
             /\ heads[inv.helper.dir] = inv.helper.branch
    /\ PushFollowsClone
          => /\ inv.helper.branch = Coalesce(inv.input.branch, "scaffolder")
             /\ IF inv.helper.branch = prev.branch
                THEN /\ IsPrefix(OpSeq(DelegateCalls),
                                 <<"currentBranch", "add", "commit", "push">>)
                     /\ inv.pc \notin {"branch", "checkout"}
                ELSE /\ IsPrefix(OpSeq(DelegateCalls),
                                 <<"currentBranch", "branch", "checkout", "add", "commit", "push">>)
                     /\ (Len(DelegateCalls) = 1 /\ inv.pc # "failed") => inv.pc = "branch"

C6_Witness ==
    /\ PushFollowsClone
    /\ prev.branch = "release"
    /\ inv.input.branch = "release"
    /\ inv.pc = "done"
    /\ OpSeq(DelegateCalls) = <<"currentBranch", "add", "commit", "push">>

-----------------------------------------------------------------------------
ExpectedCommitMessage ==
    IF inv.input.gitCommitMessage \notin {Undefined, ""} THEN inv.input.gitCommitMessage
    ELSE IF config.defaultCommitMessage \notin {Undefined, ""} THEN config.defaultCommitMessage
    ELSE "Initial commit"

(* C7: the push action commits with the input gitCommitMessage when it is
   non-empty, else with the configured scaffolder.defaultCommitMessage when that
   is non-empty, else with "Initial commit"; the message is never empty or
   undefined. *)
C7_CommitMessagePrecedence ==
    PushRunning
        => /\ inv.helper.commitMessage = ExpectedCommitMessage
           /\ inv.helper.commitMessage \notin {Undefined, ""}
           /\ \A i \in DOMAIN inv.calls :
                 inv.calls[i].op = "commit" => inv.calls[i].message = ExpectedCommitMessage

C7_Witness ==
    /\ PushRunning
    /\ inv.input.gitCommitMessage = Undefined
    /\ config.defaultCommitMessage = Undefined
    /\ \E i \in DOMAIN inv.calls :
          /\ inv.calls[i].op = "commit"
          /\ inv.calls[i].message = "Initial commit"
          /\ inv.calls[i].ok

-----------------------------------------------------------------------------
(* C8: in each action the host looked up in the registry is the input server,
   or dev.azure.com when server is omitted, and the URL given to the credentials
   provider is https://<host>/<organization>, with "notempty" for an omitted
   organization. *)
C8_HostAndUrl ==
    Started
        => LET host == ExpectedHost(inv.input)
               url == <<"https://", host, "/", ExpectedOrganization(inv.input)>>
           IN  /\ \A i \in DOMAIN inv.calls :
                     /\ inv.calls[i].op = "byHost" => inv.calls[i].host = host
                     /\ inv.calls[i].op = "getCredentials" => inv.calls[i].url = url
                     /\ inv.calls[i].op = "WebApi" => inv.calls[i].url = url
               /\ inv.helper.fn # "none"
                    => /\ OpSeq(SubSeq(inv.calls, 1, 2)) = <<"byHost", "getCredentials">>
                       /\ inv.input.server = Undefined => inv.calls[1].host = "dev.azure.com"

C8_Witness ==
    /\ Started
    /\ inv.input.server = Undefined
    /\ inv.input.organization = Undefined
    /\ Len(inv.calls) >= 2
    /\ inv.calls[1] = [op |-> "byHost", host |-> "dev.azure.com"]
    /\ inv.calls[2] = [op |-> "getCredentials",
                       url |-> <<"https://", "dev.azure.com", "/", "notempty">>]

-----------------------------------------------------------------------------
(* C9: in the PR action, an invocation that passes the credential check builds
   a personal-access-token handler when the input gave a token (any value) or
   the provider's credential type is "pat", and a bearer handler otherwise. *)
C9_PatWhenExplicitOrPat ==
    (Started /\ inv.helper.fn = "createADOPullRequest")
        => inv.helper.authHandler.kind =
              (IF inv.input.token # Undefined \/ inv.credentials.type = "pat"
               THEN "pat" ELSE "bearer")

-----------------------------------------------------------------------------
\* The git steps a run of commitAndPushBranch goes through, given what
\* git.currentBranch returned.
ExpectedPushSteps ==
    <<"currentBranch">>
    \o (IF inv.currentBranch # inv.helper.branch THEN <<"branch", "checkout">> ELSE <<>>)
    \o <<"add", "commit", "push">>

(* C10: a run of commitAndPushBranch issues currentBranch, then branch and
   checkout exactly when the current branch differs from the target, then
   add("."), commit, push, each at most once and each only after the one before
   it succeeded; the push updates refs/heads/<branch> of the branch checked out;
   after a failed step nothing more is issued. *)
C10_PushStepOrder ==
    PushRunning
        => LET g == DelegateCalls
               n == Len(g)
           IN  /\ IsPrefix(OpSeq(g), ExpectedPushSteps)
               /\ \A i \in 1..(n - 1) : g[i].ok
               /\ n > 0 => (g[n].ok <=> inv.pc # "failed")
               /\ inv.pc = "failed" => n > 0
               /\ inv.pc = "done" => n = Len(ExpectedPushSteps)
               /\ inv.pc \notin Ended => inv.pc = ExpectedPushSteps[n + 1]
               /\ \A i \in 1..n :
                     /\ g[i].dir = inv.helper.dir
                     /\ g[i].op \in {"branch", "checkout"} => g[i].ref = inv.helper.branch
                     /\ g[i].op = "add" => g[i].filepath = "."
                     /\ g[i].op = "push"
                          => g[i].remoteRef = <<"refs/heads/", inv.helper.branch>>
               /\ (n > 0 /\ g[n].op = "push")
                     => /\ inv.helper.dir \in DOMAIN heads
                        /\ heads[inv.helper.dir] = inv.helper.branch

C10_Witness ==
    /\ PushRunning
    /\ inv.pc = "done"
    /\ inv.currentBranch = "main"
    /\ inv.helper.branch = "scaffolder"
    /\ OpSeq(DelegateCalls) = <<"currentBranch", "branch", "checkout", "add", "commit", "push">>
    /\ \A i \in DOMAIN DelegateCalls : DelegateCalls[i].ok

-----------------------------------------------------------------------------
CloneRunning == Started /\ inv.helper.fn = "cloneRepo"

(* C11: a run of cloneRepo issues clone (depth 1, url = remoteUrl), then
   addRemote (remote "origin" by default, url = remoteUrl), then checkout
   (ref = branch, "main" by default), in that order and each at most once; a
   failed step ends the run with its error and no later step is issued. *)
C11_CloneStepOrder ==
    CloneRunning
        => LET g == DelegateCalls
               n == Len(g)
               steps == <<"clone", "addRemote", "checkout">>
           IN  /\ IsPrefix(OpSeq(g), steps)
               /\ \A i \in 1..(n - 1) : g[i].ok
               /\ n > 0 => (g[n].ok <=> inv.pc # "failed")
               /\ inv.pc = "failed" => (n > 0 /\ inv.error = "UpstreamError")
               /\ inv.pc = "done" => n = Len(steps)
               /\ inv.pc \notin Ended => inv.pc = steps[n + 1]
               /\ \A i \in 1..n :
                     /\ g[i].dir = inv.helper.dir
                     /\ g[i].op = "clone"
                          => g[i].depth = 1 /\ g[i].url = inv.input.remoteUrl
                     /\ g[i].op = "addRemote"
                          => g[i].remote = "origin" /\ g[i].url = inv.input.remoteUrl
                     /\ g[i].op = "checkout"
                          => g[i].ref = (IF inv.input.branch = Undefined THEN "main"
                                         ELSE inv.input.branch)

C11_Witness ==
    /\ CloneRunning
    /\ inv.input.branch = Undefined
    /\ inv.pc = "done"
    /\ OpSeq(DelegateCalls) = <<"clone", "addRemote", "checkout">>
    /\ DelegateCalls[3].ref = "main"

-----------------------------------------------------------------------------
ExpectedAuthor ==
    [name |-> IF inv.input.gitAuthorName \notin {Undefined, ""} THEN inv.input.gitAuthorName
              ELSE IF config.defaultAuthorName # Undefined THEN config.defaultAuthorName
              ELSE "Scaffolder",
     email |-> IF inv.input.gitAuthorEmail \notin {Undefined, ""} THEN inv.input.gitAuthorEmail
               ELSE IF config.defaultAuthorEmail # Undefined THEN config.defaultAuthorEmail
               ELSE "scaffolder@backstage.io"]

(* C12: the push action resolves the commit's author name and email each by
   precedence: the non-empty input, else the configured
   scaffolder.defaultAuthor value, else "Scaffolder" /
   "scaffolder@backstage.io"; neither is ever undefined, and the commit gets
   the same identity as author and as committer. *)
C12_AuthorPrecedence ==
    PushRunning
        => \A i \in DOMAIN inv.calls :
              inv.calls[i].op = "commit"
                 => /\ inv.calls[i].author = ExpectedAuthor
                    /\ inv.calls[i].committer = inv.calls[i].author
                    /\ inv.calls[i].author.name # Undefined
                    /\ inv.calls[i].author.email # Undefined

C12_Witness ==
    /\ PushRunning
    /\ inv.input.gitAuthorName = ""
    /\ inv.input.gitAuthorEmail = Undefined
    /\ config.defaultAuthorName = Undefined
    /\ config.defaultAuthorEmail = "configured@example.com"
    /\ \E i \in DOMAIN inv.calls :
          /\ inv.calls[i].op = "commit"
          /\ inv.calls[i].ok
          /\ inv.calls[i].author =
                [name |-> "Scaffolder", email |-> "configured@example.com"]

-----------------------------------------------------------------------------
\* The PR invocation got past the credential check: the provider was asked,
\* and the input gave a token or the provider gave credentials.
PassedCredentialCheck ==
    /\ Started /\ inv.action = "azure:repo:pr"
    /\ "getCredentials" \in OpsOf(inv.calls)
    /\ ~(inv.input.token = Undefined /\ inv.credentials = NoCredentials)

(* C13: in the PR action, every invocation that passes the credential check
   reaches createADOPullRequest with an auth handler built from a defined
   token, for every explicit token (absent, "", non-empty) and provider result
   (absent, "pat", "bearer"); .token is never read from absent credentials. *)
C13_HandlerAlwaysBuilt ==
    PassedCredentialCheck
        => /\ inv.error # "TypeError"
           /\ inv.helper.fn = "createADOPullRequest"
           /\ inv.helper.authHandler.token # Undefined

====
